---- MODULE Spec2Model ----
(***************************************************************************)
(* FilamentDehydrator: the heated drying chamber (drybox/drybox.py), its   *)
(* thermostat and sensors (drybox/hardware.py), the slow duty cycler       *)
(* (pico/cycle.py) and the cooperative scheduler (microapp/microapp.py).   *)
(*                                                                         *)
(* Five specifications share the state:                                    *)
(*   Spec        the program as Dehydrator.run wires it: five scheduled    *)
(*               tasks and the foreground loop calling DryBox.check;       *)
(*   SpecChamber the DryBox / TemperatureController API called in any      *)
(*               order (the contract of the classes);                      *)
(*   SpecApp     the same tasks under MicroApp.run with a check function   *)
(*               that answers CANCEL or DONT_CANCEL;                       *)
(*   SpecPeriodic the timing of MicroApp._do_periodic: when each callback  *)
(*               starts and returns and the delay it then asks for;        *)
(*   SpecCycler  the SlowCycle API called in any order between the         *)
(*               resumptions of its run loop, with its on/off durations.   *)
(* Spec, SpecChamber and SpecApp follow the order of the handlers, not the *)
(* time between them: per and cyc, which hold the timing, stay as built.   *)
(* Temperatures are whole degrees Celsius.  The status LED and             *)
(* MicroApp.check_count, which is only printed, are left out.              *)
(***************************************************************************)
EXTENDS Integers, Sequences, FiniteSets, TLC

VARIABLES box, app, seq, last, per, cyc, led

vars == <<box, app, seq, last, per, cyc, led>>

\* Python's None, and a value that is not None: an optional value is a
\* sequence of length 0 or 1, so that arithmetic on None is an error.
None == << >>
Some(v) == <<v>>
Val(o) == o[1]

\* ---------------------------------------------------------------- bounds
\* Most calls of panic() a run of SpecChamber follows.
MaxPanics == 2

\* Last tick of the clock SpecPeriodic follows.
MaxTime == 6
\* Most sleeps of preheat SpecPreheat follows.
MaxPolls == 22

\* ------------------------------------------------------ program constants
UNSAFE_TEMPERATURE == 70
UNSAFE_PICO_TEMPERATURE == 85
\* config['unsafe_temperature'], config['target_temperature'],
\* config['target_humidity'] of the modelled configuration
unsafe_temperature == 70
target_temperature == 50
target_humidity == 40
\* Dehydrator._num_measurements and settle_duration_s * sample_rate
num_measurements == 2
settled_delay_samples == 2
\* control_config.get('heater_hysteresis', 2)
heater_hysteresis == 2
\* SlowCycle.__init__'s check_interval_ms
check_interval_ms == 250
\* config['controls']['timeout_s'] and Dehydrator._sample_period_ms
timeout_s == 5000
sample_period_ms == 250

\* ----------------------------------------------------------- input sets
\* hysteresis_c in SpecChamber: 2 is build()'s default, 1 the constructor's
Hystereses == {1, 2}
\* what the DHT11 reports as temperature and humidity to the program
Temperatures == {45, 50, 53, 90}
Humidities == {30, 60}
\* and to the chamber under SpecChamber, with the edges of the bands
ChamberTemperatures == {45, 48, 50, 52, 53, 90}
ChamberHumidities == {30}
\* what the Pico's own thermistor can report
PicoTemperatures == {30, 75, 90}
\* the target_temp argument of DryBox.heat (0 stands for "not given")
HeatTargets == {0, 60}

\* interval_ms of schedule(), in ticks of the clock
Intervals == {2, 3}
\* timeout_ms of preheat: int(round(timeout_s)) for a timeout_s of 0 and 5000
PreheatTimeouts == {0, 5000}
\* what the DHT11 reports under SpecPreheat: out of the band and in it
PreheatTemperatures == {45, 50}
\* _num_measurements under SpecAbsorb
AbsorbWindows == {1, 2, 5}
\* what the DHT11 reports as humidity under SpecAbsorb
AbsorbHumidities == {10, 12, 14, 16, 18}
\* what _get_blink_pattern is called with besides a Status: None and 14
OutsideStates == {"None", "14"}
\* cycle_percent / duty_cycle in [0, 1] and cycle_period_s / period_s > 0,
\* each a fraction <<numerator, denominator>>: 0.1 and 180 s are build()'s
\* defaults, 0.5 and 10 s the constructor's; 1/500 s and 3/2000 s are
\* periods of 2 ms and 1.5 ms, where the rounding shows
DutyCycles == {<<0, 1>>, <<1, 3>>, <<1, 2>>, <<1, 1>>}
Periods == {<<10, 1>>, <<1, 500>>, <<3, 2000>>}

ON == "on"
OFF == "off"
RUNNING == "running"
CANCELLED == "cancelled"

\* Status
UNKNOWN == "UNKNOWN"
ERROR == "ERROR"
STARTING == "STARTING"
STATUS_RUNNING == "RUNNING"
HEATING == "HEATING"
EXHAUSTING == "EXHAUSTING"
TARGET_REACHED == "TARGET_REACHED"

\* --------------------------------------------------------------- Heater
\* A command reaching an actuator object or a pin, kept for the handler
\* that is running (box.log is emptied when a handler starts).
Logged(b, cmd) == [b EXCEPT !.log = @ \cup {cmd}]

Heater_on(b) ==
    IF b.is_on THEN b
    ELSE Logged([b EXCEPT !.heater_pin = TRUE, !.is_on = TRUE], "relay.on")

Heater_off(b) ==
    IF ~b.is_on THEN b
    ELSE Logged([b EXCEPT !.heater_pin = FALSE, !.is_on = FALSE], "relay.off")

\* ------------------------------------------------ TemperatureController
TemperatureController_set_temperature(b, temp) ==
    Logged([b EXCEPT !.target = Some(temp)], "heater.set_temperature")

TemperatureController_off(b) ==
    Logged([b EXCEPT !.target = None], "heater.off")

\* check(self): the heaters are the one TemperatureController, so
\* heater.off() is TemperatureController.off.  The second raise builds its
\* message from heater.pin, which a TemperatureController does not have.
TemperatureController_check(b, pico) ==
    IF pico > UNSAFE_PICO_TEMPERATURE
    THEN [TemperatureController_off(b) EXCEPT !.exc = "UnsafeTemperature",
                                              !.faults = TRUE]
    ELSE IF b.temperature # None /\ Val(b.temperature) > b.max_temperature
    THEN [TemperatureController_off(b) EXCEPT !.exc = "AttributeError",
                                              !.faults = TRUE]
    ELSE b

run_loop_inverted(b, pico) ==
    LET c == TemperatureController_check(b, pico) IN
    IF c.exc # "none" THEN c
    ELSE IF c.target # None /\ c.temperature # None
    THEN IF Val(c.temperature) > Val(c.target) - c.temp_hysteresis
         THEN Heater_on(c)
         ELSE IF Val(c.temperature) > Val(c.target) + c.temp_hysteresis
         THEN Heater_off(c)
         ELSE c
    ELSE [c EXCEPT !.tc_state = "waiting for temperature"]

TemperatureController_run_loop(b, pico) ==
    LET c == TemperatureController_check(b, pico) IN
    IF c.exc # "none" THEN c
    ELSE IF c.target # None /\ c.temperature # None
    THEN IF Val(c.temperature) < Val(c.target) - c.temp_hysteresis
         THEN Heater_on(c)
         ELSE IF Val(c.temperature) > Val(c.target) + c.temp_hysteresis
         THEN Heater_off(c)
         ELSE c
    ELSE [c EXCEPT !.tc_state = "waiting for temperature"]

\* ------------------------------------------------------------ Hygrometer
\* try_read: outcome "debounced" (less than a second since the last read),
\* "failed" (measure() raised) or "read" with the values t, h.
Hygrometer_try_read(b, outcome, t, h) ==
    IF outcome = "debounced" THEN b
    ELSE IF outcome = "failed"
    THEN [b EXCEPT !.temperature = None, !.humidity = None]
    ELSE [b EXCEPT !.temperature = Some(t), !.humidity = Some(h)]

\* ------------------------------------------------------------- SlowCycle
SlowCycle_set_mode(b, mode) == [b EXCEPT !.mode = mode]

SlowCycle_on(b) == Logged(SlowCycle_set_mode(b, ON), "recirculation.on")

off_writes_pin(b) ==
    Logged([SlowCycle_set_mode(b, OFF) EXCEPT !.pin = FALSE, !.pin_state = OFF],
           "recirculation.off")

SlowCycle_off(b) == Logged(SlowCycle_set_mode(b, OFF), "recirculation.off")

SlowCycle_cycle(b) == Logged(SlowCycle_set_mode(b, RUNNING), "recirculation.cycle")

SlowCycle_shut_down(b) ==
    Logged([b EXCEPT !.mode = CANCELLED, !.pin = FALSE], "recirculation.shut_down")

run_branch_without_last(b) ==
    IF b.mode = ON THEN "on"
    ELSE IF b.mode = OFF THEN "off"
    ELSE IF b.mode = RUNNING /\ b.pin_state = OFF THEN "cycle_on"
    ELSE "none"

\* The branch of run()'s if/elif chain a pass of the loop takes; "none":
\* no condition holds and the pass reaches the loop test again with no
\* sleep.
SlowCycle_run_branch(b) ==
    IF b.mode = ON THEN "on"
    ELSE IF b.mode = OFF THEN "off"
    ELSE IF b.mode = RUNNING /\ b.pin_state = OFF THEN "cycle_on"
    ELSE IF b.mode = RUNNING /\ b.pin_state = ON THEN "cycle_off"
    ELSE "none"

\* One pass of run()'s loop body, up to its sleep.
SlowCycle_run_body(b) ==
    LET branch == SlowCycle_run_branch(b) IN
    IF branch \in {"on", "cycle_on"}
    THEN Logged([b EXCEPT !.pin = TRUE, !.pin_state = ON], "recirculation.pin.on")
    ELSE IF branch \in {"off", "cycle_off"}
    THEN Logged([b EXCEPT !.pin = FALSE, !.pin_state = OFF], "recirculation.pin.off")
    ELSE b

\* round(n / d) for n >= 0 and d > 0: Python rounds a half to the even side.
round(n, d) ==
    LET q == n \div d
        r == n % d
    IN  IF 2 * r < d THEN q
        ELSE IF 2 * r > d THEN q + 1
        ELSE IF q % 2 = 0 THEN q ELSE q + 1

update_truncates(c) ==
    LET on == (c.cycle_percent[1] * c.cycle_period_s[1] * 1000)
                  \div (c.cycle_percent[2] * c.cycle_period_s[2])
    IN  [c EXCEPT !.on_time_ms = on,
                  !.off_time_ms = round(1000 * c.cycle_period_s[1],
                                        c.cycle_period_s[2]) - on]

SlowCycle_update_on_off_times(c) ==
    LET on == round(c.cycle_percent[1] * c.cycle_period_s[1] * 1000,
                    c.cycle_percent[2] * c.cycle_period_s[2])
    IN  [c EXCEPT !.on_time_ms = on,
                  !.off_time_ms = round(1000 * c.cycle_period_s[1],
                                        c.cycle_period_s[2]) - on]

SlowCycle_set_period(c, period_s) ==
    SlowCycle_update_on_off_times([c EXCEPT !.cycle_period_s = period_s])

set_duty_cycle_rearms(c, duty_cycle) ==
    LET c1 == SlowCycle_update_on_off_times([c EXCEPT !.cycle_percent = duty_cycle])
    IN  [c1 EXCEPT !.sleeping = IF c.sleeping = None THEN None
                                ELSE Some(c1.on_time_ms)]

SlowCycle_set_duty_cycle(c, duty_cycle) ==
    SlowCycle_update_on_off_times([c EXCEPT !.cycle_percent = duty_cycle])

\* __init__'s timing fields.  sleeping: the duration run() gave the sleep it
\* is suspended in, None until run() has started and after it has returned.
SlowCycle_init(cycle_percent, cycle_period_s) ==
    SlowCycle_update_on_off_times(
        [cycle_percent |-> cycle_percent, cycle_period_s |-> cycle_period_s,
         check_interval_ms |-> check_interval_ms,
         on_time_ms |-> 0, off_time_ms |-> 0, sleeping |-> None])

\* The duration of the sleep that ends one pass of run()'s loop entered
\* with the cycler as b and its timing as c.
SlowCycle_run_sleep(b, c) ==
    IF b.mode = ON \/ b.mode = OFF THEN c.check_interval_ms
    ELSE IF b.pin_state = OFF THEN c.on_time_ms
    ELSE c.off_time_ms

\* ------------------------------------------------------- exhaust fan Pin
Exhaust_on(b) == Logged([b EXCEPT !.exhaust = TRUE], "exhaust.on")

Exhaust_off(b) == Logged([b EXCEPT !.exhaust = FALSE], "exhaust.off")

\* ---------------------------------------------------------------- DryBox
DryBox_heat(b, target_temp) ==
    LET b1 == [b EXCEPT !.state = HEATING]
        b2 == TemperatureController_set_temperature(b1,
                  IF target_temp # 0 THEN target_temp ELSE b.target_temperature)
    IN  Exhaust_off(SlowCycle_on(b2))

DryBox_stay_hot(b) ==
    LET b1 == [b EXCEPT !.state = TARGET_REACHED]
        b2 == TemperatureController_set_temperature(b1, b.target_temperature)
    IN  SlowCycle_cycle(b2)

DryBox_vent(b) ==
    Exhaust_on(SlowCycle_off(TemperatureController_off([b EXCEPT !.state = EXHAUSTING])))

idle_leaves_exhaust(b) ==
    SlowCycle_off(TemperatureController_off([b EXCEPT !.state = STATUS_RUNNING]))

DryBox_idle(b) ==
    Exhaust_off(SlowCycle_off(TemperatureController_off([b EXCEPT !.state = STATUS_RUNNING])))

DryBox_reset(b) ==
    Exhaust_off(SlowCycle_off(TemperatureController_off(b)))

DryBox_turn_off_everything(b) ==
    Exhaust_off(SlowCycle_shut_down(TemperatureController_off(b)))

\* panic(): the screen is None; os.system is the host-shutdown request.
DryBox_panic(b) ==
    LET b1 == SlowCycle_on(Exhaust_on(TemperatureController_off(b)))
    IN  [b1 EXCEPT !.panics = @ + 1, !.halts = @ + 1, !.exc = "RuntimeError"]

check_ignores_thermister(b, pico) ==
    IF b.temperature # None /\ Val(b.temperature) # 0
       /\ Val(b.temperature) > b.unsafe_temperature
    THEN DryBox_panic(b)
    ELSE b

\* check(): `if temp and temp > ...` is false for None and for 0.  panic()
\* raises, so neither `return True` is reached; otherwise check returns None.
DryBox_check(b, pico) ==
    IF b.temperature # None /\ Val(b.temperature) # 0
       /\ Val(b.temperature) > b.unsafe_temperature
    THEN DryBox_panic(b)
    ELSE IF pico > b.unsafe_temperature
    THEN DryBox_panic(b)
    ELSE b

DryBox_error_handler(exception) == FALSE

\* ----------------------------------------------------------------- Blink
\* Cycle(frequency, duty_cycle); a float is the fraction <<n, d>>.
Blink_CONSTANT == [frequency |-> <<10, 1>>, duty_cycle |-> <<1, 1>>]
Blink_SLOW_CALM == [frequency |-> <<15, 10>>, duty_cycle |-> <<625, 1000>>]
Blink_ACTIVE_CALM == [frequency |-> <<4, 1>>, duty_cycle |-> <<75, 100>>]
Blink_ACTIVE == [frequency |-> <<8, 1>>, duty_cycle |-> <<75, 100>>]
Blink_IDLE_CALM == [frequency |-> <<3, 10>>, duty_cycle |-> <<7, 10>>]
Blink_IDLE_FAST == [frequency |-> <<1, 1>>, duty_cycle |-> <<75, 100>>]
Blink_WARNING == [frequency |-> <<8, 10>>, duty_cycle |-> <<125, 1000>>]

\* (on_time_ms, off_time_ms), each a fraction
Blink_blink_time_ms(cycle) ==
    LET blink_frequency == cycle.frequency
        blink_duty_cycle == cycle.duty_cycle
        cycle_period_ms == <<1000 * blink_frequency[2], blink_frequency[1]>>
    IN  [on_time_ms |-> <<cycle_period_ms[1] * blink_duty_cycle[1],
                          cycle_period_ms[2] * blink_duty_cycle[2]>>,
         off_time_ms |-> <<cycle_period_ms[1]
                              * (blink_duty_cycle[2] - blink_duty_cycle[1]),
                           cycle_period_ms[2] * blink_duty_cycle[2]>>]

STATUS_LED_PATTERNS ==
    (ERROR :> Blink_CONSTANT) @@ (UNKNOWN :> Blink_WARNING)
    @@ (STARTING :> Blink_SLOW_CALM) @@ (HEATING :> Blink_ACTIVE_CALM)
    @@ (EXHAUSTING :> Blink_ACTIVE) @@ (STATUS_RUNNING :> Blink_IDLE_CALM)
    @@ (TARGET_REACHED :> Blink_IDLE_FAST)

get_blink_pattern_falls_to_error(state) ==
    LET fallback == STATUS_LED_PATTERNS[ERROR]
    IN  Blink_blink_time_ms(IF state \in DOMAIN STATUS_LED_PATTERNS
                            THEN STATUS_LED_PATTERNS[state] ELSE fallback)

\* STATUS_LED_PATTERNS.get(state, fallback)
DryBox_get_blink_pattern(state) ==
    LET fallback == STATUS_LED_PATTERNS[UNKNOWN]
    IN  Blink_blink_time_ms(IF state \in DOMAIN STATUS_LED_PATTERNS
                            THEN STATUS_LED_PATTERNS[state] ELSE fallback)

\* The indicator before status_led has run: state, the value last looked
\* up, and found, whether STATUS_LED_PATTERNS had it; pattern, what
\* _get_blink_pattern last returned; pin, PICO_LED; pc and sleep_ms, the
\* sleep status_led is suspended in.
StatusLed_init ==
    [state |-> None, found |-> FALSE,
     pattern |-> [on_time_ms |-> <<0, 1>>, off_time_ms |-> <<0, 1>>],
     pin |-> FALSE, pc |-> "start", sleep_ms |-> 0]

\* l after _get_blink_pattern(state) has returned
Looked(l, state) ==
    [l EXCEPT !.state = Some(state),
              !.found = state \in DOMAIN STATUS_LED_PATTERNS,
              !.pattern = DryBox_get_blink_pattern(state)]

\* status_led from the head of its loop to the sleep with the LED on.
DryBox_status_led_on(l, state) ==
    LET l1 == Looked(l, state) IN
    [l1 EXCEPT !.pin = TRUE, !.pc = "on",
               !.sleep_ms = round(l1.pattern.on_time_ms[1],
                                  l1.pattern.on_time_ms[2])]

\* One resumption of status_led, self.state being state.
DryBox_status_led(l, state) ==
    IF l.pc = "on" /\ l.pattern.off_time_ms[1] > 0
    THEN [l EXCEPT !.pin = FALSE, !.pc = "off",
                   !.sleep_ms = round(l.pattern.off_time_ms[1],
                                      l.pattern.off_time_ms[2])]
    ELSE DryBox_status_led_on(l, state)

\* -------------------------------------------------------------- MicroApp
\* The scheduled tasks, in the order build_microapp and Dehydrator.run
\* register them in _scheduled_funcs.
TRY_READ == 1
RECIRCULATION == 2
PRINT_READINGS == 3
RUN_LOOP == 4
DRY_FILAMENT == 5
FOREGROUND == 0
Tasks == {TRY_READ, RECIRCULATION, PRINT_READINGS, RUN_LOOP, DRY_FILAMENT}

\* Task.cancel() of the running task: MicroPython raises RuntimeError
\* ("can't cancel self"), CPython marks the task and returns.
SelfCancelRaises(a, cur) == a.platform = "micropython" /\ cur \in Tasks

cancel_forgets_last(a, b, cur) ==
    [app |-> [a EXCEPT !.shutdown = TRUE,
                       !.tasks = [i \in Tasks |->
                           IF a.tasks[i] = "scheduled" /\ i # DRY_FILAMENT
                           THEN "cancelled" ELSE a.tasks[i]],
                       !.cleanups = @ + 1,
                       !.cancels = @ + 1],
     box |-> DryBox_turn_off_everything(b),
     exc |-> "none"]

\* cancel(), called by task cur (FOREGROUND: by the foreground loop or from
\* outside the tasks).  A cancelled task ends at its sleep, which no
\* coroutine here guards, and runs no more of its code.
MicroApp_cancel(a, b, cur) ==
    LET a1 == [a EXCEPT !.shutdown = TRUE] IN
    IF SelfCancelRaises(a, cur)
    THEN [app |-> [a1 EXCEPT !.tasks = [i \in Tasks |->
                       IF i < cur /\ a.tasks[i] = "scheduled"
                       THEN "cancelled" ELSE a.tasks[i]]],
          box |-> b,
          exc |-> "RuntimeError"]
    ELSE [app |-> [a1 EXCEPT !.tasks = [i \in Tasks |->
                       IF a.tasks[i] = "scheduled"
                       THEN "cancelled" ELSE a.tasks[i]],
                             !.cleanups = @ + 1,
                             !.cancels = @ + 1],
          box |-> DryBox_turn_off_everything(b),
          exc |-> "none"]

\* _handle_background_error: a CancelledError is raised again at once;
\* any other exception (no callback here raises KeyboardInterrupt) gets the
\* handler's verdict, then cancel() and the re-raise, which ends task cur.
\* app.reported: the tasks whose exception the error handler was given.
MicroApp_handle_background_error(a, b, cur, exception) ==
    IF exception = "CancelledError"
    THEN [app |-> [a EXCEPT !.tasks[cur] = "ended"], box |-> b,
          exc |-> exception]
    ELSE LET a1 == [a EXCEPT !.reported = @ \cup {cur}] IN
         IF DryBox_error_handler(exception)
         THEN [app |-> a1, box |-> b, exc |-> "none"]
         ELSE LET c == MicroApp_cancel(a1, b, cur) IN
              [app |-> [c.app EXCEPT !.tasks[cur] = "failed"],
               box |-> c.box,
               exc |-> IF c.exc # "none" THEN c.exc ELSE exception]

\* One iteration of _do_periodic / _repeat_with_interval around a callback
\* that left the chamber in b (b.exc: what the callback raised).
MicroApp_periodic(a, b, cur) ==
    IF b.exc = "none"
    THEN [app |-> a, box |-> b, exc |-> "none"]
    ELSE MicroApp_handle_background_error(a, b, cur, b.exc)

cancelled_is_handled(a, b, cur) ==
    MicroApp_handle_background_error(a, b, cur, "Error")

\* ------------------------------------------- the timing of _do_periodic
\* The tasks registered with schedule().
PeriodicTasks == {PRINT_READINGS, RUN_LOOP}

\* utime.ticks_diff, the clock being far from wrapping
ticks_diff(ticks1, ticks2) == ticks1 - ticks2

\* How long asyncio.sleep_ms(t) sleeps: not at all for t <= 0.
asyncio_sleep_ms(t) == IF t > 0 THEN t ELSE 0

\* After schedule(interval_ms[i], ...) for each task i.  pos: where the
\* coroutine of task i is ("new": not yet started, "func": in its callback,
\* "sleep": in its sleep until wake); active: its callbacks in progress;
\* elapsed, delay_ms: ticks_diff(...) and delay_ms of its last pass.
MicroApp_schedule(interval_ms) ==
    [now |-> 0, interval_ms |-> interval_ms,
     pos |-> [i \in PeriodicTasks |-> "new"],
     start |-> [i \in PeriodicTasks |-> 0],
     elapsed |-> [i \in PeriodicTasks |-> 0],
     delay_ms |-> [i \in PeriodicTasks |-> 0],
     wake |-> [i \in PeriodicTasks |-> 0],
     active |-> [i \in PeriodicTasks |-> 0]]

due_by_timer(p, i) ==
    p.pos[i] = "new" \/ p.now >= p.start[i] + p.interval_ms[i]

\* The event loop can resume the coroutine of task i into a new pass.
MicroApp_do_periodic_due(p, i) ==
    p.pos[i] = "new" \/ (p.pos[i] = "sleep" /\ p.now >= p.wake[i])

\* A pass of the loop up to the call of func.
MicroApp_do_periodic_call(p, i) ==
    [p EXCEPT !.start[i] = p.now, !.pos[i] = "func", !.active[i] = @ + 1]

\* func has returned: the rest of the pass, to the sleep.
MicroApp_do_periodic_sleep(p, i) ==
    LET elapsed == ticks_diff(p.now, p.start[i])
        delay_ms == p.interval_ms[i] - elapsed
    IN  [p EXCEPT !.active[i] = @ - 1, !.pos[i] = "sleep",
                  !.elapsed[i] = elapsed, !.delay_ms[i] = delay_ms,
                  !.wake[i] = p.now + asyncio_sleep_ms(delay_ms)]

\* A task whose cancel() was called is resumed: CancelledError is thrown at
\* the sleep it is suspended in.  No coroutine of the program has that
\* sleep inside a try (in _do_periodic and _repeat_with_interval it follows
\* the try), so the exception leaves the coroutine and the task ends.
MicroApp_cancelled(a, b, cur) ==
    [app |-> [a EXCEPT !.tasks[cur] = "ended"], box |-> b,
     exc |-> "CancelledError"]

\* ------------------------------------------------- Dehydrator.dry_filament
\* The sequencer's state when dry_filament starts, for _num_measurements
\* n and a preheat timeout_ms.  pc: the sleep it is suspended in or how it
\* ended; now: the tick clock; humidity: dry_filament's local.  Kept for
\* the claims: inband, the in-band samples preheat has polled in a row;
\* did_preheat, what preheat returned;
\* sloped, a slope was computed since absorb_moisture began; timed_out,
\* what did_timeout last answered.
Dehydrator_init(n, timeout_ms) ==
    [pc |-> "start", settled_samples |-> 0, readings |-> <<>>, starting |-> 0,
     num_measurements |-> n, timeout_ms |-> timeout_ms,
     now |-> 0, start_time |-> 0, current_time |-> 0,
     inband |-> 0, did_preheat |-> "pending",
     humidity |-> None, sloped |-> FALSE, timed_out |-> FALSE]

Failed(b, s) == [box |-> b, seq |-> [s EXCEPT !.pc = "failed"]]

\* The steady-state loop from its head to its first sleep.
Dehydrator_steady_state(b, s, humidity) ==
    LET s1 == [s EXCEPT !.humidity = humidity] IN
    IF humidity = None THEN Failed(b, s1)
    ELSE IF Val(humidity) > b.target_humidity
    THEN [box |-> DryBox_vent(b), seq |-> [s1 EXCEPT !.pc = "vent"]]
    ELSE [box |-> DryBox_idle(b), seq |-> [s1 EXCEPT !.pc = "rest"]]

slope_magnitude(readings) ==
    LET d == Val(readings[Len(readings)]) - Val(readings[1])
    IN  IF d < 0 THEN -d ELSE d

\* get_slope(readings) * _num_measurements
Slope(readings) == Val(readings[Len(readings)]) - Val(readings[1])

absorb_loop_while_not_below(b, s, timeout) ==
    LET s1 == [s EXCEPT !.timed_out = timeout] IN
    IF 2 * Slope(s.readings) >= s.starting /\ ~timeout
    THEN [box |-> b, seq |-> [s1 EXCEPT !.pc = "absorb"]]
    ELSE Dehydrator_steady_state(b, s1, s.readings[Len(s.readings)])

\* absorb_moisture's while test: with slope_threshold = 0.5,
\* current_slope > target_slope is 2 * (last - first) > starting last - first.
Dehydrator_absorb_loop(b, s, timeout) ==
    LET s1 == [s EXCEPT !.timed_out = timeout] IN
    IF 2 * Slope(s.readings) > s.starting /\ ~timeout
    THEN [box |-> b, seq |-> [s1 EXCEPT !.pc = "absorb"]]
    ELSE Dehydrator_steady_state(b, s1, s.readings[Len(s.readings)])

\* absorb_moisture up to the first priming sleep.
Dehydrator_absorb_entry(b, s) ==
    [box |-> DryBox_stay_hot(b),
     seq |-> [s EXCEPT !.pc = "prime", !.readings = <<b.humidity>>,
                       !.sloped = FALSE, !.timed_out = FALSE]]

prime_stops_short(b, s, timeout) ==
    IF Len(s.readings) < s.num_measurements - 1
    THEN [box |-> b, seq |-> [s EXCEPT !.readings = Append(@, b.humidity)]]
    ELSE IF s.readings[1] = None \/ s.readings[Len(s.readings)] = None
    THEN Failed(b, s)
    ELSE Dehydrator_absorb_loop(b, [s EXCEPT !.starting = Slope(s.readings),
                                             !.sloped = TRUE], timeout)

\* absorb_moisture resumed from a priming sleep.
Dehydrator_prime(b, s, timeout) ==
    IF Len(s.readings) < s.num_measurements
    THEN [box |-> b, seq |-> [s EXCEPT !.readings = Append(@, b.humidity)]]
    ELSE IF s.readings[1] = None \/ s.readings[Len(s.readings)] = None
    THEN Failed(b, s)
    ELSE Dehydrator_absorb_loop(b, [s EXCEPT !.starting = Slope(s.readings),
                                             !.sloped = TRUE], timeout)

\* absorb_moisture resumed from the sleep of its while loop.
Dehydrator_absorb(b, s, timeout) ==
    IF b.humidity = None
    THEN Dehydrator_absorb_loop(b, s, timeout)
    ELSE LET r == Append(Tail(s.readings), b.humidity) IN
         IF r[1] = None THEN Failed(b, s)
         ELSE Dehydrator_absorb_loop(b, [s EXCEPT !.readings = r], timeout)

after_preheat_goes_on(b, s, did_preheat) ==
    [box |-> DryBox_stay_hot(b), seq |-> [s EXCEPT !.pc = "settle"]]

\* dry_filament after preheat has returned did_preheat: it returns, or
\* goes on to its settling sleep.
Dehydrator_after_preheat(b, s, did_preheat) ==
    IF ~did_preheat
    THEN [box |-> b, seq |-> [s EXCEPT !.pc = "returned"]]
    ELSE [box |-> DryBox_stay_hot(b), seq |-> [s EXCEPT !.pc = "settle"]]

\* One pass of preheat's loop.  current_time is assigned once, with
\* start_time, and the loop never refreshes it.
Dehydrator_preheat_loop(b, s) ==
    LET current_temp == Val(b.temperature)
        target_temp == b.target_temperature
    IN  IF ticks_diff(s.current_time, s.start_time) >= s.timeout_ms
        THEN Dehydrator_after_preheat(b, [s EXCEPT !.did_preheat = "False"], FALSE)
        ELSE IF b.temperature = None THEN Failed(b, s)
        ELSE IF target_temp - current_temp > b.temp_hysteresis
        THEN [box |-> b, seq |-> [s EXCEPT !.pc = "preheat", !.settled_samples = 0,
                                           !.inband = 0]]
        ELSE IF current_temp - target_temp > b.temp_hysteresis
        THEN [box |-> b, seq |-> [s EXCEPT !.pc = "preheat", !.settled_samples = 0,
                                           !.inband = 0]]
        ELSE IF s.settled_samples < settled_delay_samples
        THEN [box |-> b, seq |-> [s EXCEPT !.pc = "preheat", !.settled_samples = @ + 1,
                                           !.inband = @ + 1]]
        ELSE Dehydrator_after_preheat(b, [s EXCEPT !.inband = @ + 1,
                                                   !.did_preheat = "True"], TRUE)

\* preheat from its start to its first sleep.
Dehydrator_preheat(b, s) ==
    IF Val(b.temperature) <= 0 \/ Val(b.temperature) >= 100
    THEN Failed(b, s)
    ELSE Dehydrator_preheat_loop(DryBox_heat(b, b.target_temperature),
                                 [s EXCEPT !.settled_samples = 0, !.inband = 0,
                                           !.start_time = s.now,
                                           !.current_time = s.now])

\* dry_filament resumed at s.pc and run to its next sleep, return or raise.
Dehydrator_dry_filament(b, s, timeout) ==
    CASE s.pc = "start" ->
           IF b.temperature = None
           THEN [box |-> b, seq |-> [s EXCEPT !.pc = "warmup"]]
           ELSE Dehydrator_preheat(b, s)
      [] s.pc = "warmup" ->
           IF b.temperature = None THEN Failed(b, s)
           ELSE Dehydrator_preheat(b, s)
      [] s.pc = "preheat" -> Dehydrator_preheat_loop(b, s)
      [] s.pc = "settle" -> Dehydrator_absorb_entry(b, s)
      [] s.pc = "prime" -> Dehydrator_prime(b, s, timeout)
      [] s.pc = "absorb" -> Dehydrator_absorb(b, s, timeout)
      [] s.pc = "vent" ->
           [box |-> DryBox_idle(b), seq |-> [s EXCEPT !.pc = "vent_settle"]]
      [] s.pc = "vent_settle" -> Dehydrator_absorb_entry(b, s)
      [] s.pc = "rest" -> Failed(b, s)

\* One resumption of SlowCycle.run: the loop test, then the body.  A pass
\* that takes no branch changes nothing and is followed by the same pass,
\* for ever: the task is "spinning" and never gives the event loop back.
SlowCycle_run(b) ==
    IF b.mode = CANCELLED
    THEN [box |-> b, status |-> "done"]
    ELSE IF SlowCycle_run_branch(b) = "none"
    THEN [box |-> b, status |-> "spinning"]
    ELSE [box |-> SlowCycle_run_body(b), status |-> "scheduled"]

\* One pass of _main's loop, func being what main_func(self) did and
\* returned.  An exception leaves asyncio.run, and run() re-raises it, the
\* error handler answering False.
MicroApp_main(a, b, func) ==
    IF a.shutdown
    THEN [app |-> [a EXCEPT !.main = "finished", !.cleanups = @ + 1],
          box |-> DryBox_turn_off_everything(b)]
    ELSE LET a1 == func.app
         IN  IF func.box.exc # "none"
             THEN [app |-> [a1 EXCEPT !.main = "raised"], box |-> func.box]
             ELSE IF func.ret = "CANCEL"
             THEN [app |-> [a1 EXCEPT !.shutdown = TRUE, !.main = "returned"],
                   box |-> func.box]
             ELSE [app |-> a1, box |-> func.box]

\* ------------------------------------------------------------------ state
\* A handler starts: nothing raised and no command issued yet.
Begin(b) == [b EXCEPT !.log = {}, !.exc = "none"]

Platforms == {"micropython", "cpython"}

\* After build(): Heater.__init__, TemperatureController.__init__,
\* SlowCycle.__init__, Hygrometer.__init__, DryBox.__init__,
\* MicroApp.__init__ and the five registrations.
Box(h) ==
    [heater_pin |-> FALSE, is_on |-> FALSE,
                target |-> None, temp_hysteresis |-> h,
                max_temperature |-> UNSAFE_TEMPERATURE, tc_state |-> "idle",
                temperature |-> None, humidity |-> None,
                mode |-> OFF, pin |-> FALSE, pin_state |-> OFF,
                exhaust |-> FALSE,
                state |-> STATUS_RUNNING,
                unsafe_temperature |-> unsafe_temperature,
                target_temperature |-> target_temperature,
                target_humidity |-> target_humidity,
                panics |-> 0, halts |-> 0, faults |-> FALSE,
                log |-> {}, exc |-> "none"]

Init ==
    /\ box = Box(heater_hysteresis)
    /\ \E p \in Platforms :
         app = [shutdown |-> FALSE, cleanups |-> 0, cancels |-> 0,
                reported |-> {},
                tasks |-> [i \in Tasks |-> "scheduled"],
                main |-> "running", platform |-> p]
    /\ seq = Dehydrator_init(num_measurements, timeout_s)
    /\ last = [op |-> "init", pico |-> None]
    /\ led = StatusLed_init
    /\ per = MicroApp_schedule([i \in PeriodicTasks |-> 3])
    /\ cyc = SlowCycle_init(<<1, 10>>, <<180, 1>>)

\* A task that never suspends keeps the event loop: nothing else runs.
Starved == \E i \in Tasks : app.tasks[i] = "spinning"

Scheduled(task) ==
    app.main = "running" /\ app.tasks[task] = "scheduled" /\ ~Starved

\* ------------------------------------------------ the tasks of the program
TaskTryRead ==
    /\ Scheduled(TRY_READ)
    /\ \E outcome \in {"debounced", "failed", "read"},
          t \in Temperatures, h \in Humidities :
         box' = Hygrometer_try_read(Begin(box), outcome, t, h)
    /\ last' = [op |-> "try_read", pico |-> None]
    /\ UNCHANGED <<app, seq>>
    /\ UNCHANGED <<per, cyc, led>>

TaskRecirculation ==
    /\ Scheduled(RECIRCULATION)
    /\ LET r == SlowCycle_run(Begin(box)) IN
         /\ box' = r.box
         /\ app' = [app EXCEPT !.tasks[RECIRCULATION] = r.status]
    /\ last' = [op |-> "recirculation.run", pico |-> None]
    /\ UNCHANGED seq
    /\ UNCHANGED <<per, cyc, led>>

TaskPrintReadings ==
    /\ Scheduled(PRINT_READINGS)
    /\ \E pico \in PicoTemperatures :
         /\ box' = Begin(box)
         /\ last' = [op |-> "print_readings", pico |-> None]
    /\ UNCHANGED <<app, seq>>
    /\ UNCHANGED <<per, cyc, led>>

TaskRunLoop ==
    /\ Scheduled(RUN_LOOP)
    /\ \E pico \in PicoTemperatures :
         LET r == MicroApp_periodic(app,
                      TemperatureController_run_loop(Begin(box), pico), RUN_LOOP)
         IN  /\ box' = r.box
             /\ app' = r.app
             /\ last' = [op |-> "run_loop", pico |-> Some(pico)]
    /\ UNCHANGED seq
    /\ UNCHANGED <<per, cyc, led>>

TaskDryFilament ==
    /\ Scheduled(DRY_FILAMENT)
    /\ \E timeout \in BOOLEAN :
         LET r == Dehydrator_dry_filament(Begin(box), seq, timeout) IN
           /\ seq' = r.seq
           /\ box' = IF r.seq.pc = "failed"
                     THEN [r.box EXCEPT !.exc = "Error"] ELSE r.box
           /\ app' = IF r.seq.pc = "failed"
                     THEN [app EXCEPT !.tasks[DRY_FILAMENT] = "failed"]
                     ELSE IF r.seq.pc = "returned"
                     THEN [app EXCEPT !.tasks[DRY_FILAMENT] = "done"]
                     ELSE app
    /\ last' = [op |-> "dry_filament", pico |-> None]
    /\ UNCHANGED <<per, cyc, led>>

\* The foreground loop of Dehydrator.run: app.run(100, self.drybox.check).
MainCheck ==
    /\ app.main = "running"
    /\ ~Starved
    /\ \E pico \in PicoTemperatures :
         LET r == MicroApp_main(app, Begin(box),
                      [app |-> app, box |-> DryBox_check(Begin(box), pico),
                       ret |-> None])
         IN  /\ box' = r.box
             /\ app' = r.app
             /\ last' = [op |-> IF app.shutdown THEN "main" ELSE "check",
                         pico |-> Some(pico)]
    /\ UNCHANGED seq
    /\ UNCHANGED <<per, cyc, led>>

\* The event loop resumes a task that cancel() has cancelled.
TaskCancelled ==
    /\ app.main = "running"
    /\ ~Starved
    /\ \E i \in Tasks :
         /\ app.tasks[i] = "cancelled"
         /\ LET r == MicroApp_cancelled(app, Begin(box), i) IN
              /\ box' = [r.box EXCEPT !.exc = r.exc]
              /\ app' = r.app
    /\ last' = [op |-> "CancelledError", pico |-> None]
    /\ UNCHANGED seq
    /\ UNCHANGED <<per, cyc, led>>

Tasks_Next ==
    \/ TaskTryRead
    \/ TaskRecirculation
    \/ TaskPrintReadings
    \/ TaskRunLoop
    \/ TaskDryFilament
    \/ TaskCancelled

Next == Tasks_Next \/ MainCheck

Spec == Init /\ [][Next]_vars

\* ------------------------------------- a check function answering CANCEL
\* main_func as in MicroApp's docstring: it answers DONT_CANCEL, or CANCEL,
\* or calls app.cancel() and then answers CANCEL or DONT_CANCEL.
MainGeneric ==
    /\ app.main = "running"
    /\ ~Starved
    /\ \E answer \in {"DONT_CANCEL", "CANCEL", "cancel(); CANCEL",
                       "cancel(); DONT_CANCEL"} :
         LET c == MicroApp_cancel(app, Begin(box), FOREGROUND)
             func == IF answer = "cancel(); CANCEL"
                     THEN [app |-> c.app, box |-> c.box, ret |-> "CANCEL"]
                     ELSE IF answer = "cancel(); DONT_CANCEL"
                     THEN [app |-> c.app, box |-> c.box, ret |-> "DONT_CANCEL"]
                     ELSE [app |-> app, box |-> Begin(box), ret |-> answer]
             r == MicroApp_main(app, Begin(box), func)
         IN  /\ box' = r.box
             /\ app' = r.app
             /\ last' = [op |-> IF app.shutdown THEN "main" ELSE answer,
                         pico |-> None]
    /\ UNCHANGED seq
    /\ UNCHANGED <<per, cyc, led>>

NextApp == Tasks_Next \/ MainGeneric

SpecApp == Init /\ [][NextApp]_vars

\* ------------------------------------------- the chamber's API, any order
InitChamber ==
    /\ \E h \in Hystereses : box = Box(h)
    /\ app = [shutdown |-> FALSE, cleanups |-> 0, cancels |-> 0,
              reported |-> {},
              tasks |-> [i \in Tasks |-> "scheduled"],
              main |-> "running", platform |-> "micropython"]
    /\ seq = Dehydrator_init(num_measurements, timeout_s)
    /\ last = [op |-> "init", pico |-> None]
    /\ led = StatusLed_init
    /\ per = MicroApp_schedule([i \in PeriodicTasks |-> 3])
    /\ cyc = SlowCycle_init(<<1, 10>>, <<180, 1>>)

CallHeat ==
    /\ \E t \in HeatTargets : 
         /\ box' = DryBox_heat(Begin(box), t)
         /\ last' = [op |-> "heat", pico |-> None]
    /\ UNCHANGED <<app, seq>>
    /\ UNCHANGED <<per, cyc, led>>

CallStayHot ==
    /\ box' = DryBox_stay_hot(Begin(box))
    /\ last' = [op |-> "stay_hot", pico |-> None]
    /\ UNCHANGED <<app, seq>>
    /\ UNCHANGED <<per, cyc, led>>

CallVent ==
    /\ box' = DryBox_vent(Begin(box))
    /\ last' = [op |-> "vent", pico |-> None]
    /\ UNCHANGED <<app, seq>>
    /\ UNCHANGED <<per, cyc, led>>

CallIdle ==
    /\ box' = DryBox_idle(Begin(box))
    /\ last' = [op |-> "idle", pico |-> None]
    /\ UNCHANGED <<app, seq>>
    /\ UNCHANGED <<per, cyc, led>>

CallReset ==
    /\ box' = DryBox_reset(Begin(box))
    /\ last' = [op |-> "reset", pico |-> None]
    /\ UNCHANGED <<app, seq>>
    /\ UNCHANGED <<per, cyc, led>>

CallTurnOffEverything ==
    /\ box' = DryBox_turn_off_everything(Begin(box))
    /\ last' = [op |-> "turn_off_everything", pico |-> None]
    /\ UNCHANGED <<app, seq>>
    /\ UNCHANGED <<per, cyc, led>>

CallPanic ==
    /\ box.panics < MaxPanics
    /\ box' = DryBox_panic(Begin(box))
    /\ last' = [op |-> "panic", pico |-> None]
    /\ UNCHANGED <<app, seq>>
    /\ UNCHANGED <<per, cyc, led>>

CallCheck ==
    /\ box.panics < MaxPanics
    /\ \E pico \in PicoTemperatures :
         /\ box' = DryBox_check(Begin(box), pico)
         /\ last' = [op |-> "check", pico |-> Some(pico)]
    /\ UNCHANGED <<app, seq>>
    /\ UNCHANGED <<per, cyc, led>>

CallRunLoop ==
    /\ \E pico \in PicoTemperatures :
         /\ box' = TemperatureController_run_loop(Begin(box), pico)
         /\ last' = [op |-> "run_loop", pico |-> Some(pico)]
    /\ UNCHANGED <<app, seq>>
    /\ UNCHANGED <<per, cyc, led>>

CallTryRead ==
    /\ \E outcome \in {"debounced", "failed", "read"},
          t \in ChamberTemperatures, h \in ChamberHumidities :
         box' = Hygrometer_try_read(Begin(box), outcome, t, h)
    /\ last' = [op |-> "try_read", pico |-> None]
    /\ UNCHANGED <<app, seq>>
    /\ UNCHANGED <<per, cyc, led>>

CallRecirculationRun ==
    /\ app.tasks[RECIRCULATION] = "scheduled"
    /\ LET r == SlowCycle_run(Begin(box)) IN
         /\ box' = r.box
         /\ app' = [app EXCEPT !.tasks[RECIRCULATION] = r.status]
    /\ last' = [op |-> "recirculation.run", pico |-> None]
    /\ UNCHANGED seq
    /\ UNCHANGED <<per, cyc, led>>

NextChamber ==
    \/ CallHeat
    \/ CallStayHot
    \/ CallVent
    \/ CallIdle
    \/ CallReset
    \/ CallTurnOffEverything
    \/ CallPanic
    \/ CallCheck
    \/ CallRunLoop
    \/ CallTryRead
    \/ CallRecirculationRun

SpecChamber == InitChamber /\ [][NextChamber]_vars

\* ------------------------------------------------ preheat and its clock
\* The sensor task and dry_filament, with the tick clock followed through
\* preheat's sleeps (nothing else of the sequencer modelled here reads it).
InitPreheat ==
    /\ box = Box(heater_hysteresis)
    /\ app = [shutdown |-> FALSE, cleanups |-> 0, cancels |-> 0,
              reported |-> {},
              tasks |-> [i \in Tasks |-> "scheduled"],
              main |-> "running", platform |-> "micropython"]
    /\ \E timeout_ms \in PreheatTimeouts :
         seq = Dehydrator_init(num_measurements, timeout_ms)
    /\ last = [op |-> "init", pico |-> None]
    /\ led = StatusLed_init
    /\ per = MicroApp_schedule([i \in PeriodicTasks |-> 3])
    /\ cyc = SlowCycle_init(<<1, 10>>, <<180, 1>>)

PreheatTryRead ==
    /\ Scheduled(TRY_READ)
    /\ \E outcome \in {"debounced", "failed", "read"},
          t \in PreheatTemperatures, h \in ChamberHumidities :
         box' = Hygrometer_try_read(Begin(box), outcome, t, h)
    /\ last' = [op |-> "try_read", pico |-> None]
    /\ UNCHANGED <<app, seq, per, cyc, led>>

\* dry_filament is resumed; a sleep of preheat has taken _sample_period_ms.
PreheatDryFilament ==
    /\ Scheduled(DRY_FILAMENT)
    /\ seq.now < MaxPolls * sample_period_ms
    /\ \E timeout \in BOOLEAN :
         LET slept == [seq EXCEPT !.now = IF seq.pc = "preheat"
                                         THEN @ + sample_period_ms ELSE @]
             r == Dehydrator_dry_filament(Begin(box), slept, timeout)
         IN  /\ seq' = r.seq
             /\ box' = IF r.seq.pc = "failed"
                       THEN [r.box EXCEPT !.exc = "Error"] ELSE r.box
             /\ app' = IF r.seq.pc = "failed"
                       THEN [app EXCEPT !.tasks[DRY_FILAMENT] = "failed"]
                       ELSE IF r.seq.pc = "returned"
                       THEN [app EXCEPT !.tasks[DRY_FILAMENT] = "done"]
                       ELSE app
    /\ last' = [op |-> "dry_filament", pico |-> None]
    /\ UNCHANGED <<per, cyc, led>>

NextPreheat ==
    \/ PreheatTryRead
    \/ PreheatDryFilament

SpecPreheat == InitPreheat /\ [][NextPreheat]_vars

\* ------------------------------------------------ absorb_moisture's window
\* The sensor task and dry_filament for several _num_measurements.
InitAbsorb ==
    /\ box = Box(heater_hysteresis)
    /\ app = [shutdown |-> FALSE, cleanups |-> 0, cancels |-> 0,
              reported |-> {},
              tasks |-> [i \in Tasks |-> "scheduled"],
              main |-> "running", platform |-> "micropython"]
    /\ \E n \in AbsorbWindows : seq = Dehydrator_init(n, timeout_s)
    /\ last = [op |-> "init", pico |-> None]
    /\ led = StatusLed_init
    /\ per = MicroApp_schedule([i \in PeriodicTasks |-> 3])
    /\ cyc = SlowCycle_init(<<1, 10>>, <<180, 1>>)

AbsorbTryRead ==
    /\ Scheduled(TRY_READ)
    /\ \E outcome \in {"debounced", "failed", "read"},
          t \in {target_temperature}, h \in AbsorbHumidities :
         box' = Hygrometer_try_read(Begin(box), outcome, t, h)
    /\ last' = [op |-> "try_read", pico |-> None]
    /\ UNCHANGED <<app, seq, per, cyc, led>>

NextAbsorb ==
    \/ AbsorbTryRead
    \/ PreheatDryFilament

SpecAbsorb == InitAbsorb /\ [][NextAbsorb]_vars

\* ------------------------------------------------ the status indicator
\* The task DryBox.__init__ creates, the calls that change self.state, and
\* _get_blink_pattern called as src/blink.py calls it.
StatusLed ==
    /\ app.main = "running"
    /\ led' = DryBox_status_led(led, box.state)
    /\ box' = Begin(box)
    /\ last' = [op |-> "status_led", pico |-> None]
    /\ UNCHANGED <<app, seq, per, cyc>>

CallGetBlinkPattern ==
    /\ \E state \in DOMAIN STATUS_LED_PATTERNS \cup OutsideStates :
         led' = Looked(led, state)
    /\ box' = Begin(box)
    /\ last' = [op |-> "_get_blink_pattern", pico |-> None]
    /\ UNCHANGED <<app, seq, per, cyc>>

NextLed ==
    \/ StatusLed
    \/ CallGetBlinkPattern
    \/ CallHeat
    \/ CallStayHot
    \/ CallVent
    \/ CallIdle

SpecLed == InitChamber /\ [][NextLed]_vars

\* ------------------------------------------------ the periodic tasks' timing
\* schedule(interval, func) for two tasks whose callbacks return; time
\* passes while a callback runs and while the tasks sleep.  Callbacks of
\* different tasks may overlap here, which one event loop never lets them:
\* the program's interleavings are among these.
InitPeriodic ==
    /\ box = Box(heater_hysteresis)
    /\ app = [shutdown |-> FALSE, cleanups |-> 0, cancels |-> 0,
              reported |-> {},
              tasks |-> [i \in Tasks |-> "scheduled"],
              main |-> "running", platform |-> "micropython"]
    /\ seq = Dehydrator_init(num_measurements, timeout_s)
    /\ last = [op |-> "init", pico |-> None]
    /\ led = StatusLed_init
    /\ \E interval_ms \in [PeriodicTasks -> Intervals] :
         per = MicroApp_schedule(interval_ms)
    /\ cyc = SlowCycle_init(<<1, 10>>, <<180, 1>>)

PeriodicTick ==
    /\ per.now < MaxTime
    /\ per' = [per EXCEPT !.now = @ + 1]
    /\ UNCHANGED <<box, app, seq, last, cyc, led>>

PeriodicCall ==
    /\ \E i \in PeriodicTasks :
         /\ MicroApp_do_periodic_due(per, i)
         /\ per' = MicroApp_do_periodic_call(per, i)
    /\ UNCHANGED <<box, app, seq, last, cyc, led>>

PeriodicReturn ==
    /\ \E i \in PeriodicTasks :
         /\ per.pos[i] = "func"
         /\ per' = MicroApp_do_periodic_sleep(per, i)
    /\ UNCHANGED <<box, app, seq, last, cyc, led>>

NextPeriodic ==
    \/ PeriodicTick
    \/ PeriodicCall
    \/ PeriodicReturn

SpecPeriodic == InitPeriodic /\ [][NextPeriodic]_vars

\* --------------------------------------------- the duty cycler's API
InitCycler ==
    /\ box = Box(heater_hysteresis)
    /\ app = [shutdown |-> FALSE, cleanups |-> 0, cancels |-> 0,
              reported |-> {},
              tasks |-> [i \in Tasks |-> "scheduled"],
              main |-> "running", platform |-> "micropython"]
    /\ seq = Dehydrator_init(num_measurements, timeout_s)
    /\ last = [op |-> "init", pico |-> None]
    /\ led = StatusLed_init
    /\ per = MicroApp_schedule([i \in PeriodicTasks |-> 3])
    /\ \E cycle_percent \in DutyCycles, cycle_period_s \in Periods :
         cyc = SlowCycle_init(cycle_percent, cycle_period_s)

CyclerOn ==
    /\ box' = SlowCycle_on(Begin(box))
    /\ last' = [op |-> "on", pico |-> None]
    /\ UNCHANGED <<app, seq, per, cyc, led>>

CyclerOff ==
    /\ box' = SlowCycle_off(Begin(box))
    /\ last' = [op |-> "off", pico |-> None]
    /\ UNCHANGED <<app, seq, per, cyc, led>>

CyclerCycle ==
    /\ box' = SlowCycle_cycle(Begin(box))
    /\ last' = [op |-> "cycle", pico |-> None]
    /\ UNCHANGED <<app, seq, per, cyc, led>>

CyclerShutDown ==
    /\ box' = SlowCycle_shut_down(Begin(box))
    /\ last' = [op |-> "shut_down", pico |-> None]
    /\ UNCHANGED <<app, seq, per, cyc, led>>

CyclerSetPeriod ==
    /\ \E period_s \in Periods :
         cyc' = SlowCycle_set_period(cyc, period_s)
    /\ box' = Begin(box)
    /\ last' = [op |-> "set_period", pico |-> None]
    /\ UNCHANGED <<app, seq, per, led>>

CyclerSetDutyCycle ==
    /\ \E duty_cycle \in DutyCycles :
         cyc' = SlowCycle_set_duty_cycle(cyc, duty_cycle)
    /\ box' = Begin(box)
    /\ last' = [op |-> "set_duty_cycle", pico |-> None]
    /\ UNCHANGED <<app, seq, per, led>>

\* The run loop is resumed from its sleep (or started): the loop test,
\* then the body and the next sleep, or the return.
CyclerRun ==
    /\ app.tasks[RECIRCULATION] = "scheduled"
    /\ LET r == SlowCycle_run(Begin(box)) IN
         /\ box' = r.box
         /\ app' = [app EXCEPT !.tasks[RECIRCULATION] = r.status]
         /\ cyc' = [cyc EXCEPT !.sleeping =
                       IF r.status = "scheduled"
                       THEN Some(SlowCycle_run_sleep(box, cyc)) ELSE None]
    /\ last' = [op |-> "recirculation.run", pico |-> None]
    /\ UNCHANGED <<seq, per, led>>

NextCycler ==
    \/ CyclerOn
    \/ CyclerOff
    \/ CyclerCycle
    \/ CyclerShutDown
    \/ CyclerSetPeriod
    \/ CyclerSetDutyCycle
    \/ CyclerRun

SpecCycler == InitCycler /\ [][NextCycler]_vars

\* ================================================================ claims
\* The relay, the setpoint, the duty cycler and the exhaust fan.
Actuators(b) == <<b.heater_pin, b.is_on, b.target, b.mode, b.pin, b.pin_state, b.exhaust>>

\* Either reading is above unsafe_temperature.
Exceeds(b, pico) ==
    \/ b.temperature # None /\ Val(b.temperature) > b.unsafe_temperature
    \/ pico > b.unsafe_temperature

\* The last call was panic(), made directly or by check().
Panicked == last.op = "panic" \/ (last.op = "check" /\ box.exc = "RuntimeError")

\* The commands panic() gives.
PanicCommands == {"heater.off", "exhaust.on", "recirculation.on"}

C2_NoSetpointRelayOff ==
    (/\ last.op = "run_loop"
     /\ box.exc = "none"
     /\ (box.target = None \/ box.temperature = None))
    => ~box.heater_pin

\* C3: after panic() the heater relay is off, the exhaust fan is on, the
\* recirculation cycler is switched on and the host shutdown was requested.
C3_PanicEffect ==
    Panicked =>
        /\ ~box.heater_pin
        /\ box.exhaust
        /\ box.mode = ON
        /\ box.halts >= 1

\* C4: once a safety ceiling was seen breached, by the thermostat's check
\* or by check(), and the scheduler has stopped, the heater relay is off
\* and panic() has requested the host shutdown.
C4_BreachReachesShutdown ==
    ((box.faults \/ box.panics > 0) /\ app.main # "running")
    => (~box.heater_pin /\ box.panics >= 1 /\ box.halts >= 1)

\* C5: with unsafe_temperature = 70 and a reading of 90, when the program
\* has stopped panic() was called exactly once; and once panic() was
\* called no handler gives a command other than panic's.
C5_ExactlyOnePanic ==
    /\ (/\ box.unsafe_temperature = 70
        /\ box.temperature = Some(90)
        /\ app.main # "running") => box.panics = 1
    /\ box.panics >= 1 => box.log \subseteq PanicCommands

\* C6: a run_loop whose safety check finds a breach raises with the heater
\* relay off and without having switched the relay on.
C6_BreachForcesRelayOff ==
    (last.op = "run_loop" /\ box.exc # "none")
    => (~box.heater_pin /\ "relay.on" \notin box.log)

\* C7: check() calls panic() when the sensor's or the platform's
\* temperature is above unsafe_temperature; otherwise it calls no panic()
\* and leaves Mode and every actuator as they were.
C7_CheckPanicsIffExceeded ==
    [][last'.op = "check"
       => IF Exceeds(box, Val(last'.pico))
          THEN box'.panics = box.panics + 1 /\ box'.halts = box.halts + 1
          ELSE /\ box'.panics = box.panics
               /\ box'.halts = box.halts
               /\ box'.state = box.state
               /\ Actuators(box') = Actuators(box)]_vars

\* C7 witness: a check() with the sensor's temperature unavailable and the
\* platform's at 30 returned without panic, the relay being on.
C7_Witness ==
    /\ last.op = "check"
    /\ last.pico = Some(30)
    /\ box.exc = "none"
    /\ box.temperature = None
    /\ box.heater_pin
    /\ box.panics = 0

\* C8: each chamber call leaves the Mode of the table.
C8_ModeTable ==
    /\ last.op = "heat" => box.state = HEATING
    /\ last.op = "stay_hot" => box.state = TARGET_REACHED
    /\ last.op = "vent" => box.state = EXHAUSTING
    /\ last.op = "idle" => box.state = STATUS_RUNNING
    /\ last.op = "reset" => box.state = STARTING
    /\ last.op = "panic" => box.state = ERROR

\* C9: after stay_hot() the setpoint is the target temperature, the
\* recirculation cycler is cycling and the exhaust fan is off.
C9_StayHotEffect ==
    last.op = "stay_hot" =>
        /\ box.target = Some(box.target_temperature)
        /\ box.mode = RUNNING
        /\ ~box.exhaust

\* C10: when the check function has answered CANCEL and the foreground
\* loop has stopped, the cleanup callback has run exactly once.
C10_CancelRunsCleanupOnce ==
    app.main = "returned" => app.cleanups = 1

\* The callbacks of the scheduled tasks, as last.op names them.
CallbackOps == {"try_read", "recirculation.run", "print_readings", "run_loop",
                "dry_filament"}

\* C11: the cleanup callback is invoked at most once over the scheduler's
\* lifetime, whoever calls cancel() and however often, and whether or not
\* the foreground loop then observes the shutdown flag.
C11_CleanupAtMostOnce ==
    app.cleanups <= 1

\* C12: when the callback of a task registered with schedule() raised an
\* error that the handler did not handle, cancel() was invoked and the
\* error ends the foreground run(): once the scheduler has stopped, it has
\* stopped by raising.
C12_UnhandledErrorReachesForeground ==
    \A i \in {PRINT_READINGS, RUN_LOOP} :
        app.tasks[i] = "failed" =>
            /\ app.shutdown
            /\ app.main # "running" => app.main = "raised"

\* C13: every scheduled task that an exception has ended, the raw
\* coroutines dry_filament and SlowCycle.run included, had that exception
\* passed to the error handler.
C13_EveryFaultReachesHandler ==
    \A i \in Tasks : app.tasks[i] = "failed" => i \in app.reported

\* C14: a step in which a cancelled task receives its cancellation ends
\* that task, does not pass anything to the error handler and calls
\* neither cancel() nor the cleanup callback; a task so ended stays ended.
C14_CancellationPropagates ==
    [][\A i \in Tasks :
          /\ (app.tasks[i] = "cancelled" /\ app'.tasks[i] # "cancelled")
             => /\ app'.tasks[i] = "ended"
                /\ app'.reported = app.reported
                /\ app'.cancels = app.cancels
                /\ app'.cleanups = app.cleanups
                /\ app'.shutdown = app.shutdown
          /\ app.tasks[i] = "ended" => app'.tasks[i] = "ended"]_vars

\* C14 witness: the sensor task has received its cancellation and ended,
\* after the thermostat task's cancel() that ran the cleanup once.
C14_Witness ==
    /\ last.op = "CancelledError"
    /\ app.tasks[TRY_READ] = "ended"
    /\ app.tasks[RUN_LOOP] = "failed"
    /\ app.cancels = 1
    /\ app.cleanups = 1

\* C15: once a cancel() has returned, the shutdown flag is set and stays
\* set, no registered task is still scheduled, and no later step invokes a
\* task's callback.
C15_AfterCancelNothingFires ==
    [][/\ app.shutdown => app'.shutdown
       /\ app.cancels > 0 =>
            /\ app.shutdown
            /\ \A i \in Tasks : app.tasks[i] # "scheduled"
            /\ \A i \in Tasks : app'.tasks[i] # "scheduled"
            /\ last'.op \notin CallbackOps]_vars

\* C15 witness: cancel() has returned to a foreground loop that is still
\* running, and the sensor task has since received its cancellation.
C15_Witness ==
    /\ app.cancels = 1
    /\ app.main = "running"
    /\ app.shutdown
    /\ app.tasks[TRY_READ] = "ended"
    /\ app.tasks[DRY_FILAMENT] = "cancelled"

\* C16: no task registered with schedule() ever has two invocations of its
\* callback in progress, and a new invocation starts only when none is.
C16_NoSelfOverlap ==
    [][\A i \in PeriodicTasks :
          /\ per.active[i] <= 1
          /\ per'.active[i] <= 1
          /\ per'.active[i] > per.active[i] => per.active[i] = 0]_vars

\* C16 witness: the thermostat task is in its callback for the second
\* time at least (it has slept before, and overran its interval of 2 by
\* one tick), while the display task sleeps after a run of its own.
C16_Witness ==
    /\ per.pos[RUN_LOOP] = "func"
    /\ per.active[RUN_LOOP] = 1
    /\ per.interval_ms[RUN_LOOP] = 2
    /\ per.elapsed[RUN_LOOP] = 3
    /\ per.start[RUN_LOOP] >= per.wake[RUN_LOOP]
    /\ per.pos[PRINT_READINGS] = "sleep"
    /\ per.active[PRINT_READINGS] = 0

\* C17: the delay a task asks for after a run equals
\* max(0, interval - elapsed time of that run); it is never negative.
C17_DelayFlooredAtZero ==
    \A i \in PeriodicTasks :
        per.pos[i] = "sleep" =>
            /\ per.delay_ms[i] >= 0
            /\ per.delay_ms[i] =
                   (IF per.interval_ms[i] - per.elapsed[i] > 0
                    THEN per.interval_ms[i] - per.elapsed[i] ELSE 0)

\* C18: once the cycler's mode is ShutDown, after every later call and
\* every later pass of the run loop the mode is still ShutDown and the
\* output pin is off.
C18_ShutDownIsTerminal ==
    [][box.mode = CANCELLED => (box'.mode = CANCELLED /\ ~box'.pin)]_vars

\* The on/off durations _update_on_off_times gives the timing c.
Durations(c) ==
    <<SlowCycle_update_on_off_times(c).on_time_ms,
      SlowCycle_update_on_off_times(c).off_time_ms>>

\* C19: set_period and set_duty_cycle leave the durations recomputed from
\* the new settings and leave the sleep the run loop is suspended in as
\* it was; a cycling pass of the run loop sleeps for the on- or
\* off-duration in force when the pass starts.
C19_NewDurationsAtNextPhase ==
    [][/\ last'.op \in {"set_period", "set_duty_cycle"}
          => /\ cyc'.sleeping = cyc.sleeping
             /\ <<cyc'.on_time_ms, cyc'.off_time_ms>> = Durations(cyc')
       /\ (last'.op = "recirculation.run" /\ box.mode = RUNNING)
          => cyc'.sleeping = Some(IF box.pin_state = OFF
                                  THEN cyc.on_time_ms ELSE cyc.off_time_ms)]_vars

\* C19 witness: set_duty_cycle was called while the cycler sleeps in an
\* on-phase started with an on-duration of 5000 ms; the on-duration is now
\* 10000 ms and the sleep is still the 5000 ms one.
C19_Witness ==
    /\ last.op = "set_duty_cycle"
    /\ box.mode = RUNNING
    /\ box.pin_state = ON
    /\ cyc.sleeping = Some(5000)
    /\ cyc.on_time_ms = 10000

\* The absolute value of an integer.
Abs(x) == IF x < 0 THEN -x ELSE x

\* C20: with duty_cycle in [0, 1] and period_s > 0, in every state the on-
\* and off-durations are not negative, they add up to 1000 * period_s and
\* the on-duration is duty_cycle * 1000 * period_s, each within the half
\* millisecond of rounding.
C20_DurationsAddUp ==
    LET n == cyc.cycle_percent[1]
        d == cyc.cycle_percent[2]
        pn == 1000 * cyc.cycle_period_s[1]
        pd == cyc.cycle_period_s[2]
    IN  /\ cyc.on_time_ms >= 0
        /\ cyc.off_time_ms >= 0
        /\ 2 * Abs((cyc.on_time_ms + cyc.off_time_ms) * pd - pn) <= pd
        /\ 2 * Abs(cyc.on_time_ms * d * pd - n * pn) <= d * pd

\* C20 witness: set_period has made the period 1.5 ms at a duty cycle of
\* 1/3: the on-duration 0.5 ms is rounded to 0 and the off-duration is 2.
C20_Witness ==
    /\ last.op = "set_period"
    /\ cyc.cycle_percent = <<1, 3>>
    /\ cyc.cycle_period_s = <<3, 2000>>
    /\ cyc.on_time_ms = 0
    /\ cyc.off_time_ms = 2

\* C21: preheat returns success on the sample that makes
\* settle_duration_s * sample_rate in-band samples in a row, not later,
\* and while it polls its counter is the number of in-band samples in a
\* row (an out-of-band sample makes both zero).
C21_SuccessOnKthSample ==
    /\ seq.did_preheat = "True" => seq.inband = settled_delay_samples
    /\ seq.pc = "preheat" => seq.settled_samples = seq.inband

\* C22: preheat is not still polling once a poll has found 5000 ms
\* elapsed since its start tick, and it has not returned failure before
\* that much time has elapsed.
C22_TimeoutEndsPreheat ==
    /\ (seq.pc = "preheat" /\ seq.timeout_ms = 5000)
          => ticks_diff(seq.now, seq.start_time) < seq.timeout_ms
    /\ seq.did_preheat = "False"
          => ticks_diff(seq.now, seq.start_time) >= seq.timeout_ms

\* C23: once preheat has returned failure the sequencer has ended without
\* stay_hot() or vent() (Mode is still Heating, the exhaust fan off, the
\* cycler not cycling), and the scheduler and the sensor task are alive.
C23_FailedPreheatEndsRun ==
    seq.did_preheat = "False" =>
        /\ seq.pc = "returned"
        /\ app.tasks[DRY_FILAMENT] = "done"
        /\ box.state = HEATING
        /\ box.mode # RUNNING
        /\ ~box.exhaust
        /\ ~app.shutdown
        /\ app.main = "running"
        /\ app.tasks[TRY_READ] = "scheduled"

\* C23 witness: preheat has returned failure, dry_filament has returned
\* and the sensor task has run since.
C23_Witness ==
    /\ seq.did_preheat = "False"
    /\ seq.pc = "returned"
    /\ last.op = "try_read"
    /\ box.temperature = Some(50)

\* C24: a slope has been computed only over a window of exactly
\* _num_measurements readings, for every _num_measurements: none while
\* priming has taken fewer samples, and the loop keeps the window's size.
C24_WindowHasNEntries ==
    /\ seq.sloped => Len(seq.readings) = seq.num_measurements
    /\ seq.pc = "absorb" => seq.sloped
    /\ seq.pc = "prime" => ~seq.sloped /\ Len(seq.readings) <= seq.num_measurements

\* C24 witness: a window of five was primed and the loop is running.
C24_Witness ==
    /\ seq.num_measurements = 5
    /\ seq.pc = "absorb"
    /\ seq.sloped
    /\ Len(seq.readings) = 5

\* C25: the window of absorb_moisture never holds an unavailable reading,
\* during priming or in the loop.
C25_WindowNeverHoldsNone ==
    \A i \in 1..Len(seq.readings) : seq.readings[i] # None

\* C26: the slope priming ends with is (last - first) / N of the primed
\* window; absorb_moisture sleeps again exactly while the window's slope
\* is above slope_threshold times that and did_timeout answers no, and
\* otherwise returns the newest reading of the window.
C26_LoopUntilSlopeOrTimeout ==
    [][(last'.op = "dry_filament" /\ seq.pc \in {"prime", "absorb"}
          /\ seq'.sloped /\ seq'.pc # "failed") =>
        LET r == seq'.readings
            n == seq'.num_measurements
            current == Val(r[n]) - Val(r[1])
        IN  /\ seq.pc = "prime" =>
                  seq'.starting = Val(seq.readings[n]) - Val(seq.readings[1])
            /\ seq.pc = "absorb" => seq'.starting = seq.starting
            /\ seq'.pc = "absorb" <=>
                  (2 * current > seq'.starting /\ ~seq'.timed_out)
            /\ seq'.pc # "absorb" => seq'.humidity = r[n]]_vars

\* C26 witness: primed with 10, 12, 14, 16, 18 and then fed 18 twice,
\* absorb_moisture has returned 18 at the window 14, 16, 18, 18, 18.
C26_Witness ==
    /\ seq.readings = <<Some(14), Some(16), Some(18), Some(18), Some(18)>>
    /\ seq.starting = 8
    /\ ~seq.timed_out
    /\ seq.humidity = Some(18)
    /\ seq.pc = "rest"

\* C27: the low-humidity branch of the steady-state loop does not end
\* dry_filament: resumed from its wait of total_measurement_duration_s,
\* the sequencer does not raise.
C27_SteadyStateNeverEnds ==
    [][(last'.op = "dry_filament" /\ seq.pc = "rest") => seq'.pc # "failed"]_vars

\* C28: try_read never replaces a cached temperature or humidity that
\* is a reading with None, and does not raise.
C28_FailedReadKeepsCache ==
    [][last'.op = "try_read" =>
        /\ box.temperature # None => box'.temperature # None
        /\ box.humidity # None => box'.humidity # None
        /\ box'.exc = "none"]_vars

\* C30: the sequencer resumed from the sleep after vent() calls idle()
\* and sleeps again, and absorb_moisture (with its stay_hot()) starts
\* only from a settling sleep; while there has been no panic, the
\* exhaust fan is on only in Status EXHAUSTING.
C30_VentThenIdleThenSettle ==
    /\ [](box.panics = 0 => (box.exhaust => box.state = EXHAUSTING))
    /\ [][last'.op = "dry_filament" =>
            /\ seq.pc = "vent" =>
                  /\ seq'.pc = "vent_settle"
                  /\ "exhaust.off" \in box'.log
                  /\ ~box'.exhaust
                  /\ box'.state = STATUS_RUNNING
            /\ (seq'.pc = "prime" /\ seq.pc # "prime") =>
                  /\ seq.pc \in {"settle", "vent_settle"}
                  /\ box'.state = TARGET_REACHED
            /\ (seq.pc = "vent_settle" /\ seq'.pc # "failed") =>
                  seq'.pc = "prime"]_vars

\* C30 witness: after a vent the sequencer has idled and settled, and
\* absorb_moisture has started again with the exhaust fan off.
C30_Witness ==
    /\ seq.pc = "prime"
    /\ seq.humidity # None
    /\ Val(seq.humidity) > box.target_humidity
    /\ last.op = "dry_filament"
    /\ box.state = TARGET_REACHED
    /\ ~box.exhaust
    /\ box.panics = 0

\* The Modes: Unknown, Error, Starting, Running, Heating, Exhausting,
\* TargetReached.
Modes == {UNKNOWN, ERROR, STARTING, STATUS_RUNNING, HEATING, EXHAUSTING,
          TARGET_REACHED}

\* C29: a lookup of a Mode finds the Mode's own entry, whatever is looked
\* up the pattern returned has a positive on time and an off time that
\* is not negative, and a lookup of anything else returns the pattern of
\* Unknown: 156.25 ms on, 1093.75 ms off.
C29_EveryModeHasPattern ==
    led.state # None =>
        /\ Val(led.state) \in Modes => led.found
        /\ led.pattern.on_time_ms[1] > 0 /\ led.pattern.on_time_ms[2] > 0
        /\ led.pattern.off_time_ms[1] >= 0 /\ led.pattern.off_time_ms[2] > 0
        /\ Val(led.state) \notin Modes =>
              /\ 4 * led.pattern.on_time_ms[1] = 625 * led.pattern.on_time_ms[2]
              /\ 4 * led.pattern.off_time_ms[1] = 4375 * led.pattern.off_time_ms[2]

\* C29 witness: None was looked up and the pattern of Unknown came back,
\* after status_led had shown Exhausting.
C29_Witness ==
    /\ led.state = Some("None")
    /\ ~led.found
    /\ led.pattern = Blink_blink_time_ms(Blink_WARNING)
    /\ led.pc = "off"
    /\ led.sleep_ms = 31

\* C31: on(), off() and cycle() record the requested mode and nothing
\* else: they give the pin no command, the pin and _pin_state stay as
\* they are and the sleep run() is suspended in keeps its duration; after
\* such a request the pin changes only in a resumption of run() (or in
\* shut_down(), which is no request of a mode).
C31_RequestsWaitForRunLoop ==
    [][/\ (last'.op \in {"on", "off", "cycle"}) =>
             (/\ box'.mode = (CASE last'.op = "on" -> ON
                                [] last'.op = "off" -> OFF
                                [] last'.op = "cycle" -> RUNNING)
              /\ box'.pin = box.pin
              /\ box'.pin_state = box.pin_state
              /\ cyc'.sleeping = cyc.sleeping
              /\ box'.log \cap {"recirculation.pin.on",
                                "recirculation.pin.off"} = {})
       /\ (last.op \in {"on", "off", "cycle"} /\ box'.pin # box.pin) =>
             (last'.op \in {"recirculation.run", "shut_down"})]_vars

\* C31 witness: off() was called while run() sleeps in the on-phase of
\* a cycle; the pin is still on and the sleep still has on_time_ms.
C31_Witness ==
    /\ last.op = "off"
    /\ box.mode = OFF
    /\ box.pin
    /\ box.pin_state = ON
    /\ cyc.sleeping = Some(cyc.on_time_ms)
    /\ cyc.on_time_ms # cyc.check_interval_ms

\* C32: no registered task runs without suspending: every task is
\* suspended in a sleep, cancelled, or has ended, returned or raised, the
\* run loop of the duty cycler for each mode and pin state included, and
\* the drying sequencer is in one of its sleeps or has ended.
C32_EveryTaskSuspends ==
    /\ ~Starved
    /\ \A i \in Tasks :
         app.tasks[i] \in {"scheduled", "cancelled", "ended", "failed", "done"}
    /\ app.tasks[DRY_FILAMENT] = "scheduled" =>
         seq.pc \in {"start", "warmup", "preheat", "settle", "prime", "absorb",
                     "vent", "vent_settle", "rest"}

\* C32 witness: the run loop, resumed in mode RUNNING with the pin on,
\* has turned the pin off and sleeps, while the sequencer sleeps in the
\* loop of absorb_moisture.
C32_Witness ==
    /\ last.op = "recirculation.run"
    /\ box.mode = RUNNING
    /\ "recirculation.pin.off" \in box.log
    /\ app.tasks[RECIRCULATION] = "scheduled"
    /\ app.tasks[DRY_FILAMENT] = "scheduled"
    /\ seq.pc = "absorb"

\* C33: when turn_off_everything has run the heater relay is off, the
\* exhaust fan is off, the recirculation pin is off and the duty cycler
\* is in mode CANCELLED, whatever the chamber was before.
C33_CleanupTurnsEverythingOff ==
    [][last'.op = "turn_off_everything" =>
         (/\ ~box'.heater_pin
          /\ ~box'.exhaust
          /\ ~box'.pin
          /\ box'.mode = CANCELLED)]_vars

\* C34: when the primed window does not rise from its first to its last
\* reading, absorb_moisture resumed from the last priming sleep does not
\* sleep again: it returns the last primed reading, the window as primed,
\* whatever did_timeout answers.
C34_FlatOrFallingReturnsAtOnce ==
    [][(/\ last'.op = "dry_filament"
        /\ seq.pc = "prime"
        /\ Len(seq.readings) = seq.num_measurements
        /\ seq.readings[1] # None
        /\ seq.readings[Len(seq.readings)] # None
        /\ Val(seq.readings[Len(seq.readings)]) <= Val(seq.readings[1])) =>
         (/\ seq'.pc \in {"vent", "rest"}
          /\ seq'.readings = seq.readings
          /\ seq'.humidity = seq.readings[Len(seq.readings)]
          /\ seq'.starting =
                Val(seq.readings[Len(seq.readings)]) - Val(seq.readings[1])
          /\ seq'.starting <= 0)]_vars

\* C34 witness: primed with 18 and then 10, absorb_moisture has returned
\* 10 with no timeout and no further reading.
C34_Witness ==
    /\ seq.num_measurements = 2
    /\ seq.readings = <<Some(18), Some(10)>>
    /\ seq.starting = -8
    /\ ~seq.timed_out
    /\ seq.humidity = Some(10)
    /\ seq.pc = "rest"

====
